---- MODULE Spec2Model ----
(***************************************************************************)
(* ClassOutlineExt (src/ClassOutlineExt.py): the IDLE outline extension.   *)
(* The model covers the pipeline  buffer text -> ast.parse -> extraction   *)
(* records + call map -> ttk.Treeview rebuild -> find/navigate.            *)
(*                                                                         *)
(* Strings are TLA+ strings; identities (iids), row texts and the values   *)
(* column are built by the same concatenations the code performs and are   *)
(* taken apart again by the same tests (endswith, substring, split).       *)
(* TLA+ strings are ASCII, so U+2014 (em dash) is written "-" and U+2192   *)
(* (arrow) is written ">"; neither can occur in a Python identifier.       *)
(***************************************************************************)
EXTENDS Integers, Sequences, FiniteSets, TLC

VARIABLES
    win,            \* "none" | "shown" | "hidden": self._win / self._tree made, mapped
    buf,            \* the editor buffer: which source text it holds
    rows,           \* Treeview items: iid -> [parent, text, values, open]
    kids,           \* Treeview structure: iid (or "" for the root) -> children in order
    sel,            \* Treeview selection (item state flag)
    serial,         \* Treeview counter for generated iids
    last_src_hash,  \* self._last_src_hash
    func_calls,     \* self._func_calls: qual -> sequence of [label, ln]
    find_vars,      \* self._find_vars: None or the dialog's variables
    find_last_iid,  \* self._find_last_iid
    after_id,       \* self._after_id: None or the id text.after returned
    timers,         \* the after() callbacks of _periodic that Tk holds pending
    fx              \* what the last handler did (its observable effects)

vars == <<win, buf, rows, kids, sel, serial, last_src_hash, func_calls,
          find_vars, find_last_iid, after_id, timers, fx>>

----------------------------------------------------------------------------
(* Bounds of the model *)

NumSources == 4     \* the buffer holds one of Source(1) .. Source(NumSources)
MaxSel == 2         \* the user selects at most this many rows at once
MaxSerial == 6      \* generated iids I001 .. are used up to this serial
MaxNest == 2        \* functions are nested up to this many levels below the outer one
MaxCalls == 3       \* a generated function body has up to this many call statements
MaxAttr == 2        \* a generated callee has up to this many attribute accesses

\* F applied to the value of x: as in Python, an argument or a local is
\* evaluated once, however often it is used afterwards
Strict(F(_), x) == CHOOSE r \in {F(v) : v \in {x}} : TRUE

None == "None"
EmDash == "-"
Arrow == ">"

----------------------------------------------------------------------------
(* Text helpers: what str(), str.lower(), `in`, endswith and split do *)

Digit(d) ==
    CASE d = 0 -> "0" [] d = 1 -> "1" [] d = 2 -> "2" [] d = 3 -> "3"
      [] d = 4 -> "4" [] d = 5 -> "5" [] d = 6 -> "6" [] d = 7 -> "7"
      [] d = 8 -> "8" [] d = 9 -> "9" [] d = 10 -> "A" [] d = 11 -> "B"
      [] d = 12 -> "C" [] d = 13 -> "D" [] d = 14 -> "E" [] OTHER -> "F"

RECURSIVE Str(_)
Str(n) == IF n < 10 THEN Digit(n) ELSE Str(n \div 10) \o Digit(n % 10)

\* "%03X" % n
Hex3(n) == Digit((n \div 256) % 16) \o Digit((n \div 16) % 16) \o Digit(n % 16)

CharAt(s, i) == SubSeq(s, i, i)

\* needle in s
Contains(s, needle) ==
    \E i \in 1..(Len(s) - Len(needle) + 1) : SubSeq(s, i, i + Len(needle) - 1) = needle

\* s.endswith(suffix)
EndsWith(s, suffix) ==
    /\ Len(s) >= Len(suffix)
    /\ SubSeq(s, Len(s) - Len(suffix) + 1, Len(s)) = suffix

\* s.find(ch) for a one-character ch, 1-based; 0 when absent
FirstIndex(s, ch) ==
    IF \E i \in 1..Len(s) : CharAt(s, i) = ch
    THEN CHOOSE i \in 1..Len(s) :
            /\ CharAt(s, i) = ch
            /\ \A j \in 1..(i - 1) : CharAt(s, j) # ch
    ELSE 0

\* s.rfind(ch), 1-based; 0 when absent
LastIndex(s, ch) ==
    IF \E i \in 1..Len(s) : CharAt(s, i) = ch
    THEN CHOOSE i \in 1..Len(s) :
            /\ CharAt(s, i) = ch
            /\ \A j \in (i + 1)..Len(s) : CharAt(s, j) # ch
    ELSE 0

\* s.strip() for blanks
RECURSIVE Strip(_)
Strip(s) ==
    IF s = "" THEN s
    ELSE IF CharAt(s, 1) = " " THEN Strip(SubSeq(s, 2, Len(s)))
    ELSE IF CharAt(s, Len(s)) = " " THEN Strip(SubSeq(s, 1, Len(s) - 1))
    ELSE s

LowerChar(c) ==
    CASE c = "A" -> "a" [] c = "B" -> "b" [] c = "C" -> "c" [] c = "D" -> "d"
      [] c = "E" -> "e" [] c = "F" -> "f" [] c = "G" -> "g" [] c = "H" -> "h"
      [] c = "I" -> "i" [] c = "L" -> "l" [] c = "P" -> "p" [] OTHER -> c

\* s.lower()
RECURSIVE Lower(_)
Lower(s) == IF s = "" THEN s ELSE LowerChar(CharAt(s, 1)) \o Lower(SubSeq(s, 2, Len(s)))

----------------------------------------------------------------------------
(* Syntax trees: what ast.parse returns for the modelled source texts.     *)
(* A statement is [type, name, lineno, exprs, body, orelse]; an expression *)
(* is [type, id, lineno, sub, args] (sub: the callee of a Call, the value  *)
(* of an Attribute, the operands of any other form).                       *)

ClassDef(name, ln, body) ==
    [type |-> "ClassDef", name |-> name, lineno |-> ln, exprs |-> <<>>,
     body |-> body, orelse |-> <<>>]
FunctionDef(name, ln, body) ==
    [type |-> "FunctionDef", name |-> name, lineno |-> ln, exprs |-> <<>>,
     body |-> body, orelse |-> <<>>]
AsyncFunctionDef(name, ln, body) ==
    [type |-> "AsyncFunctionDef", name |-> name, lineno |-> ln, exprs |-> <<>>,
     body |-> body, orelse |-> <<>>]
IfStmt(ln, test, body, orelse) ==
    [type |-> "If", name |-> "", lineno |-> ln, exprs |-> <<test>>,
     body |-> body, orelse |-> orelse]
ExprStmt(ln, e) ==
    [type |-> "Expr", name |-> "", lineno |-> ln, exprs |-> <<e>>,
     body |-> <<>>, orelse |-> <<>>]
PassStmt(ln) ==
    [type |-> "Pass", name |-> "", lineno |-> ln, exprs |-> <<>>,
     body |-> <<>>, orelse |-> <<>>]

Name(id, ln) ==
    [type |-> "Name", id |-> id, lineno |-> ln, sub |-> <<>>, args |-> <<>>]
Attribute(value, attr, ln) ==
    [type |-> "Attribute", id |-> attr, lineno |-> ln, sub |-> <<value>>, args |-> <<>>]
Call(func, args, ln) ==
    [type |-> "Call", id |-> "", lineno |-> ln, sub |-> <<func>>, args |-> args]
Subscript(value, ln) ==
    [type |-> "Subscript", id |-> "", lineno |-> ln, sub |-> <<value>>, args |-> <<>>]

ParseFailure == [ok |-> FALSE, body |-> <<>>]
Module(body) == [ok |-> TRUE, body |-> body]

(* The source texts the buffer can hold, as ast.parse sees them.
   1:  class A:                2:  def g(): pass
           def f(self):            class A:
               g()                     pass
       def g(): pass
   3:  def foo(:               4:  def f(): pass
                                   def f(): h()
   5:  if x:
           async def k():
               a.b()
               a.b()
               t[0]()
   8:  class A:                9:  class P:
           def m(self): pass           def x(self): g()
       class A:                        def x(self, v): h()
           def n(self): pass                                                *)
\* where a nested definition stands in the enclosing function: directly in
\* its body (0), in the body of an if (1), in the else branch of an if (2)
Places == 0..2

\* the texts 100 + 10 * place + depth, place in Places and depth in 1..MaxNest:
\*     def f0():                 line 1
\*         c0()                  line 2
\*         if x: pass            line 3   (place 1: "if x:", place 0: no if)
\*         else:
\*             def f1():         line 4
\*                 c1() ...      line 5
NestSources == {100 + 10 * place + depth : place \in Places, depth \in 1..MaxNest}
NestPlace(src) == (src - 100) \div 10
NestDepth(src) == (src - 100) % 10

RECURSIVE NestedDef(_, _, _)
NestedDef(level, depth, place) ==
    LET ln == 3 * level + 1
        own == ExprStmt(ln + 1, Call(Name("c" \o Str(level), ln + 1), <<>>, ln + 1))
        inner == NestedDef(level + 1, depth, place)
        wrapped == IF place = 0 THEN <<inner>>
                   ELSE IF place = 1
                   THEN <<IfStmt(ln + 2, Name("x", ln + 2), <<inner>>, <<>>)>>
                   ELSE <<IfStmt(ln + 2, Name("x", ln + 2), <<PassStmt(ln + 2)>>,
                                 <<inner>>)>>
    IN FunctionDef("f" \o Str(level), ln,
                   IF level < depth THEN <<own>> \o wrapped ELSE <<own>>)

\* the texts 200 + 10 * root + depth, root in Roots and depth in 0..MaxAttr:
\*     def f():
\*         <root>.b.c()      line 2, with depth attribute accesses
\* where <root> is the identifier a (0), the subscript t[0] (1) or the call m() (2)
Roots == 0..2
CalleeSources == {200 + 10 * root + depth : root \in Roots, depth \in 0..MaxAttr}
CalleeRoot(src) == (src - 200) \div 10
CalleeDepth(src) == (src - 200) % 10
AttrName(level) == SubSeq("bcdefgh", level, level)

RootExpr(root) ==
    CASE root = 0 -> Name("a", 2)
      [] root = 1 -> Subscript(Name("t", 2), 2)
      [] root = 2 -> Call(Name("m", 2), <<>>, 2)

RECURSIVE CalleeExpr(_, _)
CalleeExpr(root, depth) ==
    IF depth = 0 THEN RootExpr(root)
    ELSE Attribute(CalleeExpr(root, depth - 1), AttrName(depth), 2)

\* the call statements a generated body is made of, and the (label, line)
\* pairs CV meets in each, the call before its arguments:
\*     0: g()  on line 2      1: h()  on line 2
\*     2: g(h())  on line 3   3: h(h())  on line 3
CallStmt(d) ==
    CASE d = 0 -> ExprStmt(2, Call(Name("g", 2), <<>>, 2))
      [] d = 1 -> ExprStmt(2, Call(Name("h", 2), <<>>, 2))
      [] d = 2 -> ExprStmt(3, Call(Name("g", 3), <<Call(Name("h", 3), <<>>, 3)>>, 3))
      [] d = 3 -> ExprStmt(3, Call(Name("h", 3), <<Call(Name("h", 3), <<>>, 3)>>, 3))

RECURSIVE CallDigits(_)
\* the statements of text 1000 + n: the base-5 digits of n less one, lowest first
CallDigits(n) == IF n = 0 THEN <<>> ELSE <<(n % 5) - 1>> \o CallDigits(n \div 5)

\* the texts "def f(): pass" followed, in line order, by up to MaxCalls call
\* statements
CallSources ==
    {1000 + n : n \in {m \in 0..(5^MaxCalls - 1) :
        /\ \A k \in 1..Len(CallDigits(m)) : CallDigits(m)[k] \in 0..3
        /\ \A k \in 1..(Len(CallDigits(m)) - 1) :
              CallStmt(CallDigits(m)[k]).lineno <= CallStmt(CallDigits(m)[k + 1]).lineno}}

CallBody(src) ==
    [k \in 1..Len(CallDigits(src - 1000)) |-> CallStmt(CallDigits(src - 1000)[k])]

Source(src) ==
    CASE src = 1 ->
           Module(<<ClassDef("A", 1,
                       <<FunctionDef("f", 2,
                           <<ExprStmt(3, Call(Name("g", 3), <<>>, 3))>>)>>),
                    FunctionDef("g", 4, <<PassStmt(4)>>)>>)
      [] src = 2 ->
           Module(<<FunctionDef("g", 1, <<PassStmt(1)>>),
                    ClassDef("A", 2, <<PassStmt(3)>>)>>)
      [] src = 3 -> ParseFailure
      [] src = 4 ->
           Module(<<FunctionDef("f", 1, <<PassStmt(1)>>),
                    FunctionDef("f", 2,
                       <<ExprStmt(2, Call(Name("h", 2), <<>>, 2))>>)>>)
      [] src = 5 ->
           Module(<<IfStmt(1, Name("x", 1),
                       <<AsyncFunctionDef("k", 2,
                           <<ExprStmt(3, Call(Attribute(Name("a", 3), "b", 3), <<>>, 3)),
                             ExprStmt(4, Call(Attribute(Name("a", 4), "b", 4), <<>>, 4)),
                             ExprStmt(5, Call(Subscript(Name("t", 5), 5), <<>>, 5))>>)>>,
                       <<>>)>>)
      [] src = 6 ->
           Module(<<FunctionDef("runner", 1, <<PassStmt(1)>>),
                    FunctionDef("run", 2,
                       <<ExprStmt(2, Call(Name("runner", 2), <<>>, 2))>>)>>)
      [] src = 7 ->
           Module(<<ClassDef("A", 1,
                       <<FunctionDef("f", 2,
                           <<ExprStmt(3, Call(Name("g", 3), <<>>, 3))>>),
                         FunctionDef("h", 4, <<PassStmt(4)>>)>>),
                    FunctionDef("g", 5, <<PassStmt(5)>>)>>)
      [] src = 8 ->
           Module(<<ClassDef("A", 1, <<FunctionDef("m", 2, <<PassStmt(2)>>)>>),
                    ClassDef("A", 3, <<FunctionDef("n", 4, <<PassStmt(4)>>)>>)>>)
      [] src = 9 ->
           Module(<<ClassDef("P", 1,
                       <<FunctionDef("x", 2,
                           <<ExprStmt(2, Call(Name("g", 2), <<>>, 2))>>),
                         FunctionDef("x", 3,
                           <<ExprStmt(3, Call(Name("h", 3), <<>>, 3))>>)>>)>>)
      [] src \in CalleeSources ->
           Module(<<FunctionDef("f", 1,
                       <<ExprStmt(2, Call(CalleeExpr(CalleeRoot(src), CalleeDepth(src)),
                                          <<>>, 2))>>)>>)
      [] src \in CallSources ->
           Module(<<FunctionDef("f", 1, <<PassStmt(1)>> \o CallBody(src))>>)
      [] src \in NestSources ->
           Module(<<NestedDef(0, NestDepth(src), NestPlace(src))>>)
      [] OTHER -> ParseFailure

Sources == 1..NumSources

\* ast.parse(src): raises on a syntax error
ast_parse(src) == Source(src)

\* hashlib.sha1(src.encode("utf-8")).hexdigest(): distinct for the distinct
\* texts modelled here
sha1_hexdigest(src) == "sha1:" \o Str(src)

----------------------------------------------------------------------------
(* _format_callee and _collect_calls *)

RECURSIVE AttrChain(_)
\* the while loop of _format_callee: the parts, already reversed
AttrChain(cur) ==
    IF cur.type = "Attribute" THEN AttrChain(cur.sub[1]) \o "." \o cur.id
    ELSE IF cur.type = "Name" THEN cur.id
    ELSE "<expr>"

\* faulty variant: a chain that does not start at an identifier gets the
\* label of any other unsupported callee
format_callee_fixed(func_expr) ==
    IF func_expr.type = "Name" THEN func_expr.id
    ELSE IF func_expr.type = "Attribute" /\ ~Contains(AttrChain(func_expr), "<expr>")
    THEN AttrChain(func_expr)
    ELSE "<call>"

format_callee(func_expr) ==
    IF func_expr.type = "Name" THEN func_expr.id
    ELSE IF func_expr.type = "Attribute" THEN AttrChain(func_expr)
    ELSE "<call>"

RECURSIVE CVvisitExpr(_), CVvisitExprs(_)
\* CV.visit on an expression: visit_Call records, generic_visit descends
CVvisitExpr(e) ==
    IF e.type = "Call"
    THEN <<[label |-> format_callee(e.sub[1]), ln |-> e.lineno]>>
             \o CVvisitExprs(e.sub \o e.args)
    ELSE CVvisitExprs(e.sub \o e.args)
CVvisitExprs(es) ==
    IF es = <<>> THEN <<>> ELSE CVvisitExpr(Head(es)) \o CVvisitExprs(Tail(es))

RECURSIVE CVvisitStmt(_), CVvisitStmts(_)
\* CV.visit on a statement: nested FunctionDef/AsyncFunctionDef/ClassDef stop
CVvisitStmt(s) ==
    IF s.type \in {"FunctionDef", "AsyncFunctionDef", "ClassDef"} THEN <<>>
    ELSE CVvisitExprs(s.exprs) \o CVvisitStmts(s.body) \o CVvisitStmts(s.orelse)
CVvisitStmts(ss) ==
    IF ss = <<>> THEN <<>> ELSE CVvisitStmt(Head(ss)) \o CVvisitStmts(Tail(ss))

\* faulty variant: every call met is kept
DeDupNone(calls, out) == calls

RECURSIVE DeDup(_, _)
\* the seen/out loop: keep the first occurrence of each (label, ln)
DeDup(calls, out) ==
    IF calls = <<>> THEN out
    ELSE IF \E i \in 1..Len(out) : out[i] = Head(calls)
         THEN DeDup(Tail(calls), out)
         ELSE DeDup(Tail(calls), Append(out, Head(calls)))

collect_calls(func_node) == DeDup(CVvisitStmts(func_node.body), <<>>)

----------------------------------------------------------------------------
(* _update.visit: the extraction walk *)

Record(qual, kind, lineno, parent) ==
    [qual |-> qual, kind |-> kind, lineno |-> lineno, parent |-> parent]

\* f"{parent_qual}.{n.name}" if parent_qual else n.name
QualOf(parent_qual, name) ==
    IF parent_qual # None /\ parent_qual # "" THEN parent_qual \o "." \o name ELSE name

NoCalls == [q \in {} |-> <<>>]

\* d[key] = value on a dict modelled as a function
DictSet(d, key, value) == [k \in DOMAIN d \cup {key} |-> IF k = key THEN value ELSE d[k]]

RECURSIVE visit(_, _, _)
\* acc = [items, calls]: the items list and self._func_calls as the walk fills them
visit(body, parent_qual, acc) ==
    IF body = <<>> THEN acc
    ELSE
      LET n == Head(body)
          qual == QualOf(parent_qual, n.name)
          after ==
            IF n.type = "ClassDef" THEN
                visit(n.body, qual,
                      [acc EXCEPT !.items =
                          Append(@, Record(qual, "class", n.lineno, parent_qual))])
            ELSE IF n.type \in {"FunctionDef", "AsyncFunctionDef"} THEN
                LET kind == IF n.type = "AsyncFunctionDef" THEN "async def" ELSE "def"
                IN visit(n.body, qual,
                         [items |-> Append(acc.items,
                                           Record(qual, kind, n.lineno, parent_qual)),
                          calls |-> DictSet(acc.calls, qual, collect_calls(n))])
            ELSE visit(n.body, parent_qual, acc)
      IN visit(Tail(body), parent_qual, after)

\* the records and call map one successful _update pass produces
Extract(parsed) == visit(parsed.body, None, [items |-> <<>>, calls |-> NoCalls])

\* faulty variant: the failure is reported as a function record
ParseErrorItemsDef == <<Record("Parse error (invalid syntax)", "def", 1, None)>>

ParseErrorItems == <<Record("Parse error (invalid syntax)", "err", 1, None)>>

----------------------------------------------------------------------------
(* The ttk.Treeview display surface.  A tree value is [rows, kids, serial]; *)
(* the root item is "".                                                     *)

EmptyRows == [i \in {} |-> [parent |-> "", text |-> "", values |-> <<>>, open |-> FALSE]]
RootOnly == [i \in {""} |-> <<>>]

\* tree.exists(iid)
Exists(t, iid) == iid \in DOMAIN t.rows

\* tree.get_children(parent)
get_children(t, parent) == t.kids[parent]

\* tree.parent(iid)
parent_of(t, iid) == t.rows[iid].parent

\* tree.insert(parent, "end", iid=iid, text=text, values=values), iid unused
TreeInsertInto(t, parent, iid, text, values) ==
    [rows   |-> [i \in DOMAIN t.rows \cup {iid} |->
                    IF i = iid
                    THEN [parent |-> parent, text |-> text, values |-> values,
                          open |-> FALSE]
                    ELSE t.rows[i]],
     kids   |-> [i \in DOMAIN t.kids \cup {iid} |->
                    IF i = iid THEN <<>>
                    ELSE IF i = parent THEN Append(t.kids[i], iid)
                    ELSE t.kids[i]],
     serial |-> t.serial]
TreeInsert(t, parent, iid, text, values) ==
    Strict(LAMBDA tv : TreeInsertInto(tv, parent, iid, text, values), t)

\* the identity Tk generates for an insert without iid: "I%03X" of the next
\* serial whose name is unused
GenSerial(t) ==
    CHOOSE n \in (t.serial + 1)..(t.serial + Cardinality(DOMAIN t.rows) + 1) :
        /\ ~Exists(t, "I" \o Hex3(n))
        /\ \A m \in (t.serial + 1)..(n - 1) : Exists(t, "I" \o Hex3(m))

\* try: insert(..., iid=iid) / except: iid = insert(...) without iid
InsertOrAuto(t, parent, iid, text, values) ==
    IF ~Exists(t, iid)
    THEN [t |-> TreeInsert(t, parent, iid, text, values), iid |-> iid]
    ELSE LET n == GenSerial(t)
             gen == "I" \o Hex3(n)
         IN [t |-> [TreeInsert(t, parent, gen, text, values) EXCEPT !.serial = n],
             iid |-> gen]

RECURSIVE all_iids(_, _), all_iids_each(_, _)
\* _set_tree_items.all_iids / _gather_tree_items.walk: pre-order below parent
all_iids(t, parent) == all_iids_each(t, get_children(t, parent))
all_iids_each(t, children) ==
    IF children = <<>> THEN <<>>
    ELSE <<Head(children)>> \o all_iids(t, Head(children))
            \o all_iids_each(t, Tail(children))

\* tree.selection(): the selected items, in display order
selection(t, selected) == SelectSeq(all_iids(t, ""), LAMBDA i : i \in selected)

SeqToSet(s) == {s[i] : i \in 1..Len(s)}

----------------------------------------------------------------------------
(* _set_tree_items *)

\* mapping.setdefault(parent, []).append(...) over items: the children of parent_qual
MappingGet(items, parent_qual) == SelectSeq(items, LAMBDA r : r.parent = parent_qual)

RECURSIVE InsertSorted(_, _)
InsertSorted(sorted, r) ==
    IF sorted = <<>> THEN <<r>>
    ELSE IF sorted[Len(sorted)].lineno <= r.lineno THEN Append(sorted, r)
    ELSE Append(InsertSorted(SubSeq(sorted, 1, Len(sorted) - 1), r), sorted[Len(sorted)])

RECURSIVE SortByLineFrom(_, _)
SortByLineFrom(children, sorted) ==
    IF children = <<>> THEN sorted
    ELSE SortByLineFrom(Tail(children), InsertSorted(sorted, Head(children)))

\* faulty variant: the children are inserted in the order they were passed
SortByLineNone(children) == children

\* children.sort(key=lambda t: t[2]): stable, ascending lineno
SortByLine(children) == SortByLineFrom(children, <<>>)

\* qual.split(".")[-1]
ShortName(qual) == SubSeq(qual, LastIndex(qual, ".") + 1, Len(qual))

\* f"{short_name}  -  {kind}  (L{lineno})"
RowText(r) ==
    ShortName(r.qual) \o "  " \o EmDash \o "  " \o r.kind \o "  (L" \o Str(r.lineno) \o ")"

\* f"> {label}  (L{cln})"
CallText(c) == Arrow \o " " \o c.label \o "  (L" \o Str(c.ln) \o ")"

RECURSIVE InsertCallRows(_, _, _, _, _)
\* for idx, (label, cln) in enumerate(calls): one row per call under the header
InsertCallRows(t, header_iid, qual, calls, idx) ==
    IF idx >= Len(calls) THEN t
    ELSE LET c == calls[idx + 1]
             cid == qual \o "::call::" \o Str(idx) \o ":" \o Str(c.ln)
         IN Strict(LAMBDA ins : InsertCallRows(ins.t, header_iid, qual, calls, idx + 1),
                   InsertOrAuto(t, header_iid, cid, CallText(c), <<Str(c.ln)>>))

\* the calls subtree of a function row: calls = self._func_calls.get(qual, [])
InsertCalls(t, iid, qual, fcalls) ==
    LET calls == IF qual \in DOMAIN fcalls THEN fcalls[qual] ELSE <<>>
    IN IF calls = <<>> THEN t
       ELSE Strict(LAMBDA h : InsertCallRows(h.t, h.iid, qual, calls, 0),
                   InsertOrAuto(t, iid, qual \o "::calls", "calls:", <<>>))

RECURSIVE insert_children(_, _, _, _, _), insert_each(_, _, _, _, _)
insert_children(t, items, fcalls, parent_iid, parent_qual) ==
    insert_each(t, items, fcalls, parent_iid, SortByLine(MappingGet(items, parent_qual)))
insert_each(t, items, fcalls, parent_iid, children) ==
    IF children = <<>> THEN t
    ELSE LET c == Head(children)
             withcalls(ins, nested) ==
                 IF c.kind \in {"def", "async def"}
                 THEN InsertCalls(nested, ins.iid, c.qual, fcalls)
                 ELSE nested
             rest(ins) ==
                 Strict(LAMBDA nested :
                            Strict(LAMBDA done :
                                       insert_each(done, items, fcalls, parent_iid,
                                                   Tail(children)),
                                   withcalls(ins, nested)),
                        insert_children(ins.t, items, fcalls, ins.iid, c.qual))
         IN Strict(rest,
                   InsertOrAuto(t, parent_iid, c.qual, RowText(c), <<Str(c.lineno)>>))

\* prev_expanded: the iids whose item is open
PrevExpanded(t) == {i \in DOMAIN t.rows : t.rows[i].open}

\* "Clear existing": deleting the top-level items deletes every item
Cleared(t) == [rows |-> EmptyRows, kids |-> RootOnly, serial |-> t.serial]

\* faulty variant: the expanded state is not restored
RestoreExpandedNone(t, prev_expanded) == t

\* faulty variant: every row of the new tree is opened
RestoreExpandedEvery(t, prev_expanded) ==
    [t EXCEPT !.rows = [i \in DOMAIN t.rows |-> [t.rows[i] EXCEPT !.open = TRUE]]]

\* faulty variant: with no survivor the first row is selected
RestoreSelectionDefault(t, prev_selection) ==
    LET new_selection == SelectSeq(prev_selection, LAMBDA s : Exists(t, s))
    IN IF new_selection # <<>> THEN SeqToSet(new_selection)
       ELSE SeqToSet(SubSeq(t.kids[""], 1, 1))

\* "Restore expanded state where possible"
RestoreExpanded(t, prev_expanded) ==
    [t EXCEPT !.rows = [i \in DOMAIN t.rows |->
        IF i # "" /\ i \in prev_expanded THEN [t.rows[i] EXCEPT !.open = TRUE]
                                         ELSE t.rows[i]]]

\* "Restore selection (if still present)": the selection after the rebuild
RestoreSelection(t, prev_selection) ==
    LET new_selection == SelectSeq(prev_selection, LAMBDA s : Exists(t, s))
    IN IF new_selection # <<>> THEN SeqToSet(new_selection) ELSE {}

\* the tree and selection _set_tree_items leaves, whether a remembered
\* identity was absent from the new tree, and the identities that were both
\* expanded and selected and are absent: [t, sel, stale_open, stale_sel, lost]
set_tree_items(t, selected, fcalls, items) ==
    LET prev_expanded == PrevExpanded(t)
        prev_selection == selection(t, selected)
        built == insert_children(Cleared(t), items, fcalls, "", None)
        restored == RestoreExpanded(built, prev_expanded)
    IN [t |-> restored, sel |-> RestoreSelection(restored, prev_selection),
        stale_open |-> \E i \in prev_expanded : ~Exists(restored, i),
        stale_sel |-> \E i \in selected : ~Exists(restored, i),
        lost |-> {i \in prev_expanded \cap selected : ~Exists(restored, i)}]

----------------------------------------------------------------------------
(* _update *)

NoFx == [op |-> "none", parsed |-> FALSE, rebuilt |-> FALSE, matched |-> FALSE,
         bell |-> FALSE, nav |-> 0, raised |-> FALSE,
         stale_open |-> FALSE, stale_sel |-> FALSE,
         start |-> "none", wrapped |-> FALSE, shuffled |-> FALSE,
         lost |-> {}, lost_before |-> {}]

Tree == [rows |-> rows, kids |-> kids, serial |-> serial]

\* faulty variant: the fingerprint test never skips
SkipsRebuildNever(src_hash, stored) == FALSE

\* faulty variant: the fingerprint is kept only when the parse succeeds
StoredHashOnSuccess(src_hash, parse_ok) == IF parse_ok THEN src_hash ELSE None

\* if src_hash == self._last_src_hash: return
SkipsRebuild(src_hash, stored) == src_hash = stored

\* self._last_src_hash = src_hash, before the parse is attempted
StoredHash(src_hash, parse_ok) == src_hash

\* try: parsed = ast.parse(src) / except Exception: the failure is handled here
ParseRaises(parsed) == FALSE

\* self._func_calls as the except branch leaves it: not assigned
CallsAfterFailure(fcalls) == fcalls

\* the records handed to _set_tree_items, and self._func_calls at that moment
UpdateItems(parsed) == IF parsed.ok THEN Extract(parsed).items ELSE ParseErrorItems
UpdateCalls(parsed, fcalls) ==
    IF parsed.ok THEN Extract(parsed).calls ELSE CallsAfterFailure(fcalls)

\* _update on tree t: [t, sel, hash, calls, fx]
update(t, selected, stored, fcalls, src) ==
    LET src_hash == sha1_hexdigest(src)
        parsed == ast_parse(src)
    IN IF SkipsRebuild(src_hash, stored)
       THEN [t |-> t, sel |-> selected, hash |-> stored, calls |-> fcalls,
             fx |-> [NoFx EXCEPT !.op = "update"]]
       ELSE IF ~parsed.ok /\ ParseRaises(parsed)
       THEN [t |-> t, sel |-> selected, hash |-> StoredHash(src_hash, parsed.ok),
             calls |-> fcalls,
             fx |-> [NoFx EXCEPT !.op = "update", !.parsed = TRUE, !.raised = TRUE]]
       ELSE LET result(calls, built) ==
                    [t |-> built.t, sel |-> built.sel,
                     hash |-> StoredHash(src_hash, parsed.ok), calls |-> calls,
                     fx |-> [NoFx EXCEPT !.op = "update", !.parsed = TRUE,
                                         !.rebuilt = TRUE,
                                         !.stale_open = built.stale_open,
                                         !.stale_sel = built.stale_sel,
                                         !.lost = built.lost]]
                rebuild(calls, items) ==
                    Strict(LAMBDA built : result(calls, built),
                           set_tree_items(t, selected, calls, items))
            IN Strict(LAMBDA calls :
                          Strict(LAMBDA items : rebuild(calls, items),
                                 UpdateItems(parsed)),
                      UpdateCalls(parsed, fcalls))

ApplyUpdate(u) ==
    /\ u.t.serial <= MaxSerial
    /\ rows' = u.t.rows
    /\ kids' = u.t.kids
    /\ serial' = u.t.serial
    /\ sel' = u.sel
    /\ last_src_hash' = u.hash
    /\ func_calls' = u.calls
    /\ fx' = [u.fx EXCEPT !.lost_before = fx.lost]

\* the same, noted as the work of the timer callback
ApplyPeriodicUpdate(u) ==
    /\ u.t.serial <= MaxSerial
    /\ rows' = u.t.rows
    /\ kids' = u.t.kids
    /\ serial' = u.t.serial
    /\ sel' = u.sel
    /\ last_src_hash' = u.hash
    /\ func_calls' = u.calls
    /\ fx' = [u.fx EXCEPT !.op = "periodic", !.lost_before = fx.lost]

----------------------------------------------------------------------------
(* _gather_tree_items, the matcher, _expand_to, _navigate_to_iid *)

\* kinds: the categories ticked in the dialog
KindsOf(fv) ==
    (IF fv.in_cls # 0 THEN {"class"} ELSE {})
        \cup (IF fv.in_fun # 0 THEN {"def", "async def"} ELSE {})
        \cup (IF fv.in_cal # 0 THEN {"call"} ELSE {})

\* faulty variant: the header test is left out and every iid with "::call"
\* counts as a call
kind_of_no_header(iid, text) ==
    IF Contains(iid, "::call") THEN "call"
    ELSE LET d == FirstIndex(text, EmDash)
             right == Strip(SubSeq(text, d + 1, Len(text)))
             p == FirstIndex(right, "(")
             kpart == Strip(IF p = 0 THEN right ELSE SubSeq(right, 1, p - 1))
         IN IF d # 0 /\ kpart \in {"class", "def", "async def"} THEN kpart ELSE None

\* _gather_tree_items.kind_of; a text without the dash makes the unpacking
\* of split() raise, which the except turns into None
kind_of(iid, text) ==
    IF EndsWith(iid, "::calls") THEN None
    ELSE IF Contains(iid, "::call::") THEN "call"
    ELSE LET d == FirstIndex(text, EmDash)
             right == Strip(SubSeq(text, d + 1, Len(text)))
             p == FirstIndex(right, "(")
             kpart == Strip(IF p = 0 THEN right ELSE SubSeq(right, 1, p - 1))
         IN IF d # 0 /\ kpart \in {"class", "def", "async def"} THEN kpart ELSE None

\* _gather_tree_items: (iid, kind, label) of the rows of the requested kinds
gather_tree_items(t, kinds) ==
    LET ids == all_iids(t, "")
        all == [k \in 1..Len(ids) |->
                   [iid |-> ids[k], kind |-> kind_of(ids[k], t.rows[ids[k]].text),
                    label |-> t.rows[ids[k]].text]]
    IN SelectSeq(all, LAMBDA e : e.kind # None /\ e.kind \in kinds)

\* ids.index(x), 0-based
IndexOf(ids, x) ==
    (CHOOSE k \in 1..Len(ids) : ids[k] = x /\ \A j \in 1..(k - 1) : ids[j] # x) - 1

\* faulty variant: the last matched identity is not consulted
StartIndexSelectionOnly(ids, cur_sel, last_iid) ==
    IF cur_sel # <<>> /\ cur_sel[1] \in SeqToSet(ids) THEN IndexOf(ids, cur_sel[1])
    ELSE -1

\* "Determine start index"
StartIndex(ids, cur_sel, last_iid) ==
    IF cur_sel # <<>> /\ cur_sel[1] \in SeqToSet(ids) THEN IndexOf(ids, cur_sel[1])
    ELSE IF last_iid # None /\ last_iid # "" /\ last_iid \in SeqToSet(ids)
         THEN IndexOf(ids, last_iid)
    ELSE -1

\* \w of the re module, for the characters of the modelled texts
IsWordChar(c) == c # "" /\ c \notin {" ", "(", ")", ":", ".", "<", ">", EmDash}

\* \b at the gap before position k of s
WordBoundary(s, k) ==
    IsWordChar(IF k > 1 THEN CharAt(s, k - 1) ELSE "")
        # IsWordChar(IF k <= Len(s) THEN CharAt(s, k) ELSE "")

\* re.compile raises re.error: of the modelled patterns, those with an
\* unbalanced parenthesis; every other modelled pattern is literal text
ReError(pattern) == Contains(pattern, "(") # Contains(pattern, ")")

\* faulty variant: the \b anchors are left out
ReSearchAnywhere(text, whole, ic, s) ==
    LET t2 == IF ic # 0 THEN Lower(text) ELSE text
        s2 == IF ic # 0 THEN Lower(s) ELSE s
    IN \E i \in 1..(Len(s2) - Len(t2) + 1) : SubSeq(s2, i, i + Len(t2) - 1) = t2

\* cre.search(s) for literal text, with re.IGNORECASE when ic, between \b when whole
ReSearch(text, whole, ic, s) ==
    LET t2 == IF ic # 0 THEN Lower(text) ELSE text
        s2 == IF ic # 0 THEN Lower(s) ELSE s
    IN \E i \in 1..(Len(s2) - Len(t2) + 1) :
          /\ SubSeq(s2, i, i + Len(t2) - 1) = t2
          /\ whole # 0 => WordBoundary(s2, i) /\ WordBoundary(s2, i + Len(t2))

\* faulty variant: a pattern that does not compile is searched for as text
MatcherFailsNever(fv) == FALSE

\* "Build matcher": the search is abandoned when the pattern does not compile;
\* wrapping the pattern in \b(?:...)\b leaves an unbalanced parenthesis unbalanced
MatcherFails(fv) == fv.rx # 0 /\ ReError(fv.pattern)

\* matches(s)
Matches(fv, s) ==
    IF fv.rx # 0 \/ fv.whole # 0 THEN ReSearch(fv.pattern, fv.whole, fv.ic, s)
    ELSE LET needle == IF fv.ic # 0 THEN Lower(fv.pattern) ELSE fv.pattern
             s2 == IF fv.ic # 0 THEN Lower(s) ELSE s
         IN Contains(s2, needle)

\* range(a, b) and range(a, b, -1)
RangeUp(a, b) == [k \in 1..(b - a) |-> a + k - 1]
RangeDown(a, b) == [k \in 1..(a - b) |-> a - k + 1]

\* faulty variant: the wrap pass stops before the start index
ScanOrderWrapShort(start_idx, n, direction, wrap) ==
    IF direction = 1
    THEN RangeUp(start_idx + 1, n)
            \o (IF wrap # 0 THEN RangeUp(0, start_idx) ELSE <<>>)
    ELSE LET st == IF start_idx = -1 THEN n ELSE start_idx
         IN RangeDown(st - 1, -1)
                \o (IF wrap # 0 THEN RangeDown(n - 1, st) ELSE <<>>)

\* "Direction & wrap": the indices try_match is called on, in order
ScanOrder(start_idx, n, direction, wrap) ==
    IF direction = 1
    THEN RangeUp(start_idx + 1, n)
            \o (IF wrap # 0 THEN RangeUp(0, start_idx + 1) ELSE <<>>)
    ELSE LET st == IF start_idx = -1 THEN n ELSE start_idx
         IN RangeDown(st - 1, -1)
                \o (IF wrap # 0 THEN RangeDown(n - 1, st - 1) ELSE <<>>)

\* the first index of order whose label matches, or -1
FirstMatch(order, items, fv) ==
    IF \E k \in 1..Len(order) : Matches(fv, items[order[k] + 1].label)
    THEN order[CHOOSE k \in 1..Len(order) :
                  /\ Matches(fv, items[order[k] + 1].label)
                  /\ \A j \in 1..(k - 1) : ~Matches(fv, items[order[j] + 1].label)]
    ELSE -1

RECURSIVE Parents(_, _)
\* _expand_to's while loop: the ancestors of iid
Parents(t, iid) ==
    LET p == parent_of(t, iid)
    IN IF p = "" THEN {} ELSE {p} \cup Parents(t, p)

\* faulty variant: only the parent is opened
expand_to_parent(t, iid) ==
    [t EXCEPT !.rows = [i \in DOMAIN t.rows |->
        IF i = parent_of(t, iid) THEN [t.rows[i] EXCEPT !.open = TRUE] ELSE t.rows[i]]]

\* _expand_to
expand_to(t, iid) ==
    [t EXCEPT !.rows = [i \in DOMAIN t.rows |->
        IF i \in Parents(t, iid) THEN [t.rows[i] EXCEPT !.open = TRUE] ELSE t.rows[i]]]

\* int(vals[0])
ParseInt(str) == CHOOSE n \in 0..99 : Str(n) = str

\* _navigate_to_iid: the line the cursor is put on, 0 when it is left alone
navigate_to_iid(t, iid) ==
    LET vals == t.rows[iid].values
    IN IF vals = <<>> THEN 0 ELSE ParseInt(vals[1])

\* _do_find_next with the dialog made: [t, sel, last, fx]; fx also notes where
\* the scan started ("sel", "last" or "edge") and whether the wrap pass matched
do_find_next(t, selected, fv, last_iid) ==
    LET items == gather_tree_items(t, KindsOf(fv))
        n == Len(items)
        ids == [k \in 1..n |-> items[k].iid]
        start_idx == StartIndex(ids, selection(t, selected), last_iid)
        hit == FirstMatch(ScanOrder(start_idx, n, fv.dirv, fv.wrap), items, fv)
        cur_sel == selection(t, selected)
        start == IF cur_sel # <<>> /\ cur_sel[1] \in SeqToSet(ids) THEN "sel"
                 ELSE IF start_idx # -1 THEN "last" ELSE "edge"
        wrapped == FirstMatch(ScanOrder(start_idx, n, fv.dirv, 0), items, fv) = -1
        quiet == [t |-> t, sel |-> selected, last |-> last_iid,
                  fx |-> [NoFx EXCEPT !.op = "find"]]
    IN IF fv.pattern = "" THEN quiet
       ELSE IF n = 0 THEN quiet
       ELSE IF MatcherFails(fv) THEN quiet
       ELSE IF hit # -1
       THEN LET iid == items[hit + 1].iid
            IN [t |-> expand_to(t, iid), sel |-> {iid}, last |-> iid,
                fx |-> [NoFx EXCEPT !.op = "find", !.matched = TRUE,
                                    !.nav = navigate_to_iid(t, iid),
                                    !.start = start, !.wrapped = wrapped]]
       ELSE [quiet EXCEPT !.fx.bell = TRUE, !.fx.start = start]

----------------------------------------------------------------------------
(* The state after construction, and the handlers *)

\* text.after(1000, self._periodic): Tk returns a fresh name "after#N"; the
\* model takes the first name that is neither pending nor held in
\* self._after_id, since only equality of names is ever used
text_after(pending, held) ==
    LET free(k) == ("after#" \o Str(k)) \notin (pending \cup {held})
    IN "after#" \o Str(CHOOSE k \in 0..3 : free(k) /\ \A j \in 0..(k - 1) : ~free(j))

\* a timer state is [after_id, timers]
\* _cancel_schedule
cancel_schedule(tm) ==
    IF tm.after_id # None
    THEN [after_id |-> None, timers |-> tm.timers \ {tm.after_id}]
    ELSE tm

\* faulty variant: text.after always fails, so nothing is ever pending
schedule_fails(tm) == cancel_schedule(tm)

\* _schedule
schedule(tm) ==
    LET c == cancel_schedule(tm)
        id == text_after(c.timers, tm.after_id)
    IN [after_id |-> id, timers |-> c.timers \cup {id}]

\* faulty variant: hiding leaves the pending callback alone
hide_window_timer_kept(tm) == [tm EXCEPT !.after_id = None]

\* _hide_window's finally clause
hide_window_timer(tm) ==
    [after_id |-> None,
     timers |-> IF tm.after_id # None THEN tm.timers \ {tm.after_id} ELSE tm.timers]

Timer == [after_id |-> after_id, timers |-> timers]

NoFindVars ==
    [made |-> FALSE, pattern |-> "", rx |-> 0, ic |-> 1, in_cls |-> 1, in_fun |-> 1,
     in_cal |-> 1, dirv |-> 1, whole |-> 0, wrap |-> 1]

\* the state after construction with one of the texts srcs in the buffer
InitOn(srcs) ==
    /\ win = "none"
    /\ buf \in srcs
    /\ rows = EmptyRows
    /\ kids = RootOnly
    /\ sel = {}
    /\ serial = 0
    /\ last_src_hash = None
    /\ func_calls = NoCalls
    /\ find_vars = NoFindVars
    /\ find_last_iid = None
    /\ after_id = None
    /\ timers = {}
    /\ fx = NoFx

Init == InitOn(Sources)

\* the user edits the buffer; what the last rebuild dropped stays on record
\* until the next handler of the outline runs
Edit(src) ==
    /\ src # buf
    /\ buf' = src
    /\ fx' = [NoFx EXCEPT !.op = "user", !.lost = fx.lost]
    /\ UNCHANGED <<after_id, timers, win, rows, kids, sel, serial, last_src_hash, func_calls,
                   find_vars, find_last_iid>>

\* toggle_outline_window_event with no window yet: _show_window builds the
\* Treeview, runs the initial _update and starts the timer
ShowWindow ==
    /\ win = "none"
    /\ win' = "shown"
    /\ ApplyUpdate(update([rows |-> EmptyRows, kids |-> RootOnly, serial |-> 0],
                          {}, last_src_hash, func_calls, buf))
    /\ after_id' = schedule(Timer).after_id
    /\ timers' = schedule(Timer).timers
    /\ UNCHANGED <<buf, find_vars, find_last_iid>>

\* _hide_window with the window mapped: withdraw, then the finally clause
HideWindow(op) ==
    /\ win = "shown"
    /\ win' = "hidden"
    /\ after_id' = hide_window_timer(Timer).after_id
    /\ timers' = hide_window_timer(Timer).timers
    /\ fx' = [NoFx EXCEPT !.op = op]
    /\ UNCHANGED <<buf, rows, kids, sel, serial, last_src_hash, func_calls,
                   find_vars, find_last_iid>>

\* _hide_window when withdraw() raises: the Toplevel, and the Treeview in it,
\* are destroyed; the finally clause runs all the same.  self._last_src_hash
\* and self._func_calls are not touched.  The next toggle finds no window
\* and goes through _show_window, which makes a new, empty Treeview.
HideWindowDestroys ==
    /\ win = "shown"
    /\ win' = "none"
    /\ rows' = EmptyRows
    /\ kids' = RootOnly
    /\ sel' = {}
    /\ serial' = 0
    /\ after_id' = hide_window_timer(Timer).after_id
    /\ timers' = hide_window_timer(Timer).timers
    /\ fx' = [NoFx EXCEPT !.op = "destroy"]
    /\ UNCHANGED <<buf, last_src_hash, func_calls, find_vars, find_last_iid>>

\* toggle_outline_window_event with the window mapped
ToggleShown == HideWindow("toggle")

\* the Close button, or WM_DELETE_WINDOW
CloseWindow == HideWindow("close")

\* toggle_outline_window_event with the window withdrawn: deiconify, lift,
\* _schedule; the tree is left as it is until the timer fires
ToggleHidden ==
    /\ win = "hidden"
    /\ win' = "shown"
    /\ after_id' = schedule(Timer).after_id
    /\ timers' = schedule(Timer).timers
    /\ fx' = [NoFx EXCEPT !.op = "toggle"]
    /\ UNCHANGED <<buf, rows, kids, sel, serial, last_src_hash, func_calls,
                   find_vars, find_last_iid>>

\* Tk runs a pending callback: _periodic calls _update, then _schedule
Periodic ==
    \E id \in timers :
        \E u \in {update(Tree, sel, last_src_hash, func_calls, buf)},
           tm \in {schedule([after_id |-> after_id, timers |-> timers \ {id}])} :
            /\ ApplyPeriodicUpdate(u)
            /\ after_id' = tm.after_id
            /\ timers' = tm.timers
            /\ UNCHANGED <<win, buf, find_vars, find_last_iid>>

\* the Refresh button: _update alone
Refresh ==
    /\ win = "shown"
    /\ ApplyUpdate(update(Tree, sel, last_src_hash, func_calls, buf))
    /\ UNCHANGED <<after_id, timers, win, buf, find_vars, find_last_iid>>

\* the user opens or closes a row that has children
UserToggle(iid) ==
    /\ win = "shown"
    /\ iid \in DOMAIN rows
    /\ kids[iid] # <<>>
    /\ rows' = [rows EXCEPT ![iid].open = ~@]
    /\ fx' = [NoFx EXCEPT !.op = "user"]
    /\ UNCHANGED <<after_id, timers, win, buf, kids, sel, serial, last_src_hash, func_calls,
                   find_vars, find_last_iid>>

\* the user clicks a row (ctrl: adds it to, or removes it from, the selection)
UserSelect(iid, ctrl) ==
    /\ win = "shown"
    /\ iid \in DOMAIN rows
    /\ sel' = IF ctrl THEN (sel \ {iid}) \cup ({iid} \ sel) ELSE {iid}
    /\ Cardinality(sel') <= MaxSel
    /\ sel' # sel
    /\ fx' = [NoFx EXCEPT !.op = "user"]
    /\ UNCHANGED <<after_id, timers, win, buf, rows, kids, serial, last_src_hash, func_calls,
                   find_vars, find_last_iid>>

\* Ctrl-F: _open_find_dialog builds the dialog once, then only raises it
OpenFindDialog ==
    /\ win = "shown"
    /\ find_vars' = IF find_vars.made THEN find_vars
                    ELSE [NoFindVars EXCEPT !.made = TRUE]
    /\ fx' = [NoFx EXCEPT !.op = "user"]
    /\ UNCHANGED <<after_id, timers, win, buf, rows, kids, sel, serial, last_src_hash, func_calls,
                   find_last_iid>>

\* patterns the user types, checkboxes the user ticks
Patterns == {"(", "g"}
Checkboxes == {"in_cls", "in_fun", "in_cal", "wrap"}

\* the user types a pattern into the entry
SetPattern(p) ==
    /\ find_vars.made
    /\ find_vars' = [find_vars EXCEPT !.pattern = p]
    /\ find_vars' # find_vars
    /\ fx' = [NoFx EXCEPT !.op = "user"]
    /\ UNCHANGED <<after_id, timers, win, buf, rows, kids, sel, serial, last_src_hash, func_calls,
                   find_last_iid>>

\* the user ticks or clears a checkbox
ToggleCheckbox(name) ==
    /\ find_vars.made
    /\ find_vars' = [find_vars EXCEPT ![name] = 1 - @]
    /\ fx' = [NoFx EXCEPT !.op = "user"]
    /\ UNCHANGED <<after_id, timers, win, buf, rows, kids, sel, serial, last_src_hash, func_calls,
                   find_last_iid>>

\* the user picks Down (1) or Up (-1)
SetDirection(d) ==
    /\ find_vars.made
    /\ find_vars' = [find_vars EXCEPT !.dirv = d]
    /\ find_vars' # find_vars
    /\ fx' = [NoFx EXCEPT !.op = "user"]
    /\ UNCHANGED <<after_id, timers, win, buf, rows, kids, sel, serial, last_src_hash, func_calls,
                   find_last_iid>>

\* Find Next, or Return in the entry
DoFindNext ==
    /\ win = "shown"
    /\ find_vars.made
    /\ LET r == do_find_next(Tree, sel, find_vars, find_last_iid)
       IN /\ rows' = r.t.rows
          /\ sel' = r.sel
          /\ find_last_iid' = r.last
          /\ fx' = r.fx
    /\ UNCHANGED <<after_id, timers, win, buf, kids, serial, last_src_hash, func_calls, find_vars>>

Next ==
    \/ \E src \in Sources : Edit(src)
    \/ ShowWindow
    \/ Refresh
    \/ \E iid \in DOMAIN rows : UserToggle(iid)
    \/ \E iid \in DOMAIN rows, ctrl \in BOOLEAN : UserSelect(iid, ctrl)

Spec == Init /\ [][Next]_vars

\* the search dialog in use on a buffer that is displayed
NextFind ==
    \/ ShowWindow
    \/ \E iid \in DOMAIN rows : UserSelect(iid, FALSE)
    \/ OpenFindDialog
    \/ \E p \in Patterns : SetPattern(p)
    \/ \E name \in Checkboxes : ToggleCheckbox(name)
    \/ \E d \in {1, -1} : SetDirection(d)
    \/ DoFindNext

SpecFind == Init /\ [][NextFind]_vars

\* the matcher options in use: the buffer holds a text with the names run and
\* runner, or the text of Source(1)
MatchSources == {1, 6}
MatchPatterns == {"(", "run"}
MatcherBoxes == {"rx", "whole"}

InitMatch == InitOn(MatchSources)

NextMatch ==
    \/ ShowWindow
    \/ \E iid \in DOMAIN rows : UserSelect(iid, FALSE)
    \/ OpenFindDialog
    \/ \E p \in MatchPatterns : SetPattern(p)
    \/ \E name \in MatcherBoxes : ToggleCheckbox(name)
    \/ DoFindNext

SpecMatch == InitMatch /\ [][NextMatch]_vars

\* the outline of texts with nested functions
InitNest == InitOn(NestSources)

NextNest ==
    \/ \E src \in NestSources : Edit(src)
    \/ ShowWindow
    \/ Refresh
    \/ \E iid \in DOMAIN rows : UserSelect(iid, FALSE)

SpecNest == InitNest /\ [][NextNest]_vars

\* the search dialog in use while the buffer is edited and refreshed
ErrorPatterns == {"("}

NextError ==
    \/ \E src \in Sources : Edit(src)
    \/ ShowWindow
    \/ Refresh
    \/ \E iid \in DOMAIN rows : UserSelect(iid, FALSE)
    \/ OpenFindDialog
    \/ \E p \in ErrorPatterns : SetPattern(p)
    \/ DoFindNext

SpecError == Init /\ [][NextError]_vars

\* the outline of generated function bodies
NextCalls ==
    \/ ShowWindow
    \/ \E iid \in DOMAIN rows : UserSelect(iid, FALSE)

SpecCalls == InitOn(CallSources) /\ [][NextCalls]_vars

\* the outline of generated callees
NextCallee ==
    \/ \E src \in CalleeSources : Edit(src)
    \/ ShowWindow
    \/ Refresh

SpecCallee == InitOn(CalleeSources) /\ [][NextCallee]_vars

\* the orders a list of records can be passed in
Orderings(items) ==
    {[k \in 1..Len(items) |-> items[f[k]]] :
        f \in {g \in [1..Len(items) -> 1..Len(items)] :
                  \A i, j \in 1..Len(items) : g[i] = g[j] => i = j}}

\* _set_tree_items called with the records items
SetTreeItems(items) ==
    /\ win = "shown"
    /\ \E built \in {set_tree_items(Tree, sel, func_calls, items)} :
          /\ built.t.serial <= MaxSerial
          /\ rows' = built.t.rows
          /\ kids' = built.t.kids
          /\ serial' = built.t.serial
          /\ sel' = built.sel
          /\ fx' = [NoFx EXCEPT !.op = "set_tree_items", !.rebuilt = TRUE,
                                 !.stale_open = built.stale_open,
                                 !.stale_sel = built.stale_sel,
                                 !.shuffled = (items # SortByLineFrom(items, <<>>))]
    /\ UNCHANGED <<after_id, timers, win, buf, last_src_hash, func_calls,
                   find_vars, find_last_iid>>

\* _set_tree_items given the records of a text in every order
OrderSources == {1, 7}

NextOrder ==
    \/ ShowWindow
    \/ \E src \in OrderSources :
          \E items \in Orderings(UpdateItems(ast_parse(src))) : SetTreeItems(items)
    \/ \E iid \in DOMAIN rows : UserToggle(iid)
    \/ \E iid \in DOMAIN rows : UserSelect(iid, FALSE)

SpecOrder == InitOn(OrderSources) /\ [][NextOrder]_vars

\* the window shown, hidden and shown again while the buffer is edited and
\* the timer runs
NextTimer ==
    \/ \E src \in Sources : Edit(src)
    \/ ShowWindow
    \/ ToggleShown
    \/ CloseWindow
    \/ ToggleHidden
    \/ Refresh
    \/ Periodic

SpecTimer == Init /\ [][NextTimer]_vars

\* the same with Tk's event loop firing a pending callback when its second
\* has passed (weak fairness of the timer tick), on texts whose definitions
\* have distinct names
SyncSources == Sources \ {4}

NextSync ==
    \/ \E src \in SyncSources : Edit(src)
    \/ ShowWindow
    \/ ToggleShown
    \/ CloseWindow
    \/ ToggleHidden
    \/ Refresh
    \/ Periodic

SpecSync == InitOn(SyncSources) /\ [][NextSync]_vars /\ WF_vars(Periodic)

\* rebuilds between two texts that share the class A and a text that does
\* not parse, with rows expanded and selected in between
CarrySources == {1, 2, 3}

NextCarry ==
    \/ \E src \in CarrySources : Edit(src)
    \/ ShowWindow
    \/ Refresh
    \/ \E iid \in DOMAIN rows : UserToggle(iid)
    \/ \E iid \in DOMAIN rows, ctrl \in BOOLEAN : UserSelect(iid, ctrl)

SpecCarry == InitOn(CarrySources) /\ [][NextCarry]_vars

\* the outline of texts in which a class or a function is defined twice
DupSources == {4, 8, 9}

NextDup ==
    \/ \E src \in DupSources : Edit(src)
    \/ ShowWindow
    \/ Refresh
    \/ \E iid \in DOMAIN rows : UserToggle(iid)
    \/ \E iid \in DOMAIN rows : UserSelect(iid, FALSE)

SpecDup == InitOn(DupSources) /\ [][NextDup]_vars

\* the same events, with a withdraw() that can fail
NextWindow ==
    \/ \E src \in Sources : Edit(src)
    \/ ShowWindow
    \/ ToggleShown
    \/ CloseWindow
    \/ HideWindowDestroys
    \/ ToggleHidden
    \/ Refresh
    \/ Periodic

SpecWindow == Init /\ [][NextWindow]_vars

\* the category checkboxes in use, with patterns that occur in the texts of
\* class, function, call and call-group rows
FilterPatterns == {"a", "("}
FilterBoxes == {"in_cls", "in_fun", "in_cal"}

NextFilter ==
    \/ ShowWindow
    \/ OpenFindDialog
    \/ \E p \in FilterPatterns : SetPattern(p)
    \/ \E name \in FilterBoxes : ToggleCheckbox(name)
    \/ \E d \in {1, -1} : SetDirection(d)
    \/ DoFindNext

SpecFilter == Init /\ [][NextFilter]_vars

----------------------------------------------------------------------------
(* Claims about _update and _set_tree_items *)

Items(src) == Extract(ast_parse(src)).items

\* the displayed tree is the single parse-error row
ErrorRowOnly ==
    /\ DOMAIN rows = {"Parse error (invalid syntax)"}
    /\ kids[""] = <<"Parse error (invalid syntax)">>
    /\ kids["Parse error (invalid syntax)"] = <<>>

\* C1: an _update whose text hashes to the stored fingerprint parses nothing
\* and leaves the tree (rows, open states, selection), the call map and the
\* fingerprint unchanged; an update that directly follows an update on the
\* same text is such an update.
SkipIdempotence ==
    [][(/\ win = "shown"
        /\ fx'.op = "update"
        /\ (sha1_hexdigest(buf) = last_src_hash \/ fx.op = "update"))
       => (/\ ~fx'.parsed
           /\ ~fx'.rebuilt
           /\ UNCHANGED <<rows, kids, sel, serial, func_calls, last_src_hash>>)]_vars

\* C1 witness: a second update on unchanged text was skipped while a row was
\* expanded and selected
SkipIdempotenceWitness ==
    /\ fx.op = "update"
    /\ ~fx.parsed
    /\ last_src_hash = sha1_hexdigest(buf)
    /\ \E i \in DOMAIN rows : rows[i].open /\ i \in sel

\* C2: after every rebuild, each identity that was expanded just before it
\* and exists in the rebuilt tree is expanded; the others are dropped and
\* nothing is raised.
ExpansionPreserved ==
    [][fx'.rebuilt =>
         (/\ \A i \in PrevExpanded(Tree) : i \in DOMAIN rows' => rows'[i].open
          /\ ~fx'.raised)]_vars

\* C2 witness: a rebuild kept one expanded identity and dropped another
ExpansionPreservedWitness ==
    /\ fx.rebuilt
    /\ fx.stale_open
    /\ \E i \in DOMAIN rows : rows[i].open

\* C3 as stated: after every rebuild the selection lists the previously
\* selected identities that still exist, in their prior order.
SelectionKeepsPriorOrder ==
    [][fx'.rebuilt =>
         selection(Tree', sel') =
            SelectSeq(selection(Tree, sel), LAMBDA i : i \in DOMAIN rows')]_vars

\* C3 amended: after every rebuild the selection is exactly the set of
\* previously selected identities that still exist in the new tree (listed
\* in the new tree's display order); it is empty when none survives, and
\* nothing is raised.
SelectionPreserved ==
    [][fx'.rebuilt =>
         (/\ sel' = {i \in sel : i \in DOMAIN rows'}
          /\ ~fx'.raised)]_vars

\* C3 witness: a rebuild of a tree with rows kept one selected identity and
\* lost another
SelectionPreservedWitness ==
    /\ fx.rebuilt
    /\ fx.stale_sel
    /\ sel # {}

\* C4 as stated: an update on text that fails to parse yields the single
\* error record and an empty call map, and raises nothing.
ParseFailureResult ==
    (fx.op = "update" /\ fx.parsed /\ ~ast_parse(buf).ok)
        => (ErrorRowOnly /\ func_calls = NoCalls /\ ~fx.raised)

\* C5: after every update that is not skipped the stored fingerprint is the
\* hash of the text just read, parse failure or not; so an update that
\* follows an update on invalid text is skipped.
FingerprintOnFailure ==
    [][/\ (fx'.op = "update" /\ fx'.parsed) => last_src_hash' = sha1_hexdigest(buf')
       /\ (fx.op = "update" /\ fx'.op = "update" /\ ~ast_parse(buf).ok)
             => ~fx'.parsed]_vars

\* C5 witness: an update on invalid text that was already displayed is skipped
FingerprintOnFailureWitness ==
    /\ fx.op = "update"
    /\ ~fx.parsed
    /\ ~ast_parse(buf).ok
    /\ ErrorRowOnly
    /\ last_src_hash = sha1_hexdigest(buf)

\* C6 as stated: the records of one successful _update pass have pairwise
\* distinct qualified names.
QualifiedNamesUnique ==
    (fx.op = "update" /\ fx.parsed /\ ast_parse(buf).ok)
        => \A i, j \in 1..Len(Items(buf)) :
              Items(buf)[i].qual = Items(buf)[j].qual => i = j

----------------------------------------------------------------------------
(* Claims about _do_find_next *)

\* the flattened index, its identities and its size, for the dialog as it is
FindIndex == gather_tree_items(Tree, KindsOf(find_vars))
FindIds == [k \in 1..Len(FindIndex) |-> FindIndex[k].iid]
FindN == Len(FindIndex)

\* the search is carried out: a pattern, a non-empty index, a valid matcher
SearchRuns == find_vars.pattern # "" /\ FindN > 0 /\ ~MatcherFails(find_vars)

\* entry k (0-based) of the index matches
EntryMatches(k) == Matches(find_vars, FindIndex[k + 1].label)

\* the claimed orders: s+1..n-1 then (wrap) 0..s; s-1..0 then (wrap) n-1..s
ForwardOrder(s, n, wrap) ==
    [k \in 1..(n - 1 - s) |-> s + k] \o (IF wrap THEN [k \in 1..(s + 1) |-> k - 1] ELSE <<>>)
BackwardOrder(s, n, wrap) ==
    [k \in 1..s |-> s - k] \o (IF wrap THEN [k \in 1..(n - s) |-> n - k] ELSE <<>>)

\* the first entry of an order that matches, or -1
FirstOf(order) ==
    IF \E k \in 1..Len(order) : EntryMatches(order[k])
    THEN order[CHOOSE k \in 1..Len(order) :
                  EntryMatches(order[k]) /\ \A j \in 1..(k - 1) : ~EntryMatches(order[j])]
    ELSE -1

\* the step selects entry k of the index, or nothing when k = -1
Selects(k) ==
    IF k # -1 THEN fx'.matched /\ sel' = {FindIds[k + 1]}
    ELSE ~fx'.matched /\ sel' = sel

\* the tree of source 1 searched for "(" in classes and functions, wrapping:
\* every entry of the index [A, A.f, g] matches
ThreeMatches ==
    /\ last_src_hash = sha1_hexdigest(1)
    /\ find_vars.pattern = "("
    /\ find_vars.in_cls = 1 /\ find_vars.in_fun = 1 /\ find_vars.in_cal = 0
    /\ find_vars.wrap = 1

\* C7: from start index s a forward search tests s+1..n-1 and then, with
\* wrap, 0..s; a backward search tests s-1..0 and then, with wrap, n-1..s;
\* the first matching entry tested is selected.  With matches [A, A.f, g],
\* forward goes A.f -> g -> A -> A.f and backward A.f -> A -> g -> A.f.
SearchDirectionAndWrap ==
    [][(fx'.op = "find" /\ SearchRuns) =>
         LET st == StartIndex(FindIds, selection(Tree, sel), find_last_iid)
             order == IF find_vars.dirv = 1
                      THEN ForwardOrder(st, FindN, find_vars.wrap # 0)
                      ELSE BackwardOrder(IF st = -1 THEN FindN ELSE st, FindN,
                                         find_vars.wrap # 0)
         IN /\ Selects(FirstOf(order))
            /\ (ThreeMatches /\ find_vars.dirv = 1) =>
                  /\ sel = {"A.f"} => sel' = {"g"}
                  /\ sel = {"g"} => sel' = {"A"}
                  /\ sel = {"A"} => sel' = {"A.f"}
            /\ (ThreeMatches /\ find_vars.dirv = -1) =>
                  /\ sel = {"A.f"} => sel' = {"A"}
                  /\ sel = {"A"} => sel' = {"g"}
                  /\ sel = {"g"} => sel' = {"A.f"}]_vars

\* C7 witness: a forward search from the last of three matches wrapped to the first
SearchDirectionAndWrapWitness ==
    /\ ThreeMatches
    /\ find_vars.dirv = 1
    /\ fx.matched /\ fx.wrapped /\ fx.start = "sel"
    /\ sel = {"A"}

\* C8: the scan starts at the selected node when it is in the index, else at
\* the last matched identity when that is in the index, else before the
\* first entry (forward) or after the last (backward), where the first pass
\* alone covers every entry.
SearchStartPosition ==
    [][(fx'.op = "find" /\ SearchRuns) =>
         LET cur == selection(Tree, sel)
             ids == SeqToSet(FindIds)
             anchored == (cur # <<>> /\ cur[1] \in ids) \/ find_last_iid \in ids
             s == IF cur # <<>> /\ cur[1] \in ids THEN IndexOf(FindIds, cur[1])
                  ELSE IF find_last_iid \in ids THEN IndexOf(FindIds, find_last_iid)
                  ELSE IF find_vars.dirv = 1 THEN -1 ELSE FindN
             order == IF find_vars.dirv = 1
                      THEN ForwardOrder(s, FindN, find_vars.wrap # 0)
                      ELSE BackwardOrder(s, FindN, find_vars.wrap # 0)
         IN /\ Selects(FirstOf(order))
            /\ ~anchored =>
                  Selects(FirstOf(IF find_vars.dirv = 1
                                  THEN ForwardOrder(-1, FindN, FALSE)
                                  ELSE BackwardOrder(FindN, FindN, FALSE)))]_vars

\* C8 witness: with a row outside the index selected, the search went on
\* from the last matched identity
SearchStartPositionWitness ==
    /\ fx.matched
    /\ fx.start = "last"
    /\ ~fx.wrapped
    /\ find_vars.dirv = 1
    /\ sel = {"g"}

\* X lies below a in the displayed tree
Below(t, a, x) == x \in SeqToSet(all_iids(t, a))

\* C9: when a search matches X, every ancestor of X is expanded, no row that
\* was expanded is collapsed, the selection is {X}, the last matched
\* identity is X and the cursor goes to the line stored on X.
EffectsOfMatch ==
    [][fx'.matched =>
         \E x \in DOMAIN rows :
            /\ Matches(find_vars, rows[x].text)
            /\ sel' = {x}
            /\ find_last_iid' = x
            /\ \A a \in DOMAIN rows : Below(Tree, a, x) => rows'[a].open
            /\ \A i \in DOMAIN rows : rows[i].open => rows'[i].open
            /\ rows[x].values # <<>>
            /\ Str(fx'.nav) = rows[x].values[1]
            /\ UNCHANGED kids]_vars

\* C9 witness: A.f was matched; its ancestor A is expanded and the calls
\* group below it, expanded by an earlier match, is still expanded
EffectsOfMatchWitness ==
    /\ fx.matched
    /\ sel = {"A.f"}
    /\ find_last_iid = "A.f"
    /\ fx.nav = 2
    /\ rows["A"].open
    /\ rows["A.f::calls"].open

\* C10 as stated: a search with a pattern that matches no node of the
\* included categories rings the bell and leaves the selection and the last
\* matched identity unchanged.
ExhaustedSearchBell ==
    [][(/\ fx'.op = "find"
        /\ find_vars.pattern # ""
        /\ ~MatcherFails(find_vars)
        /\ \A k \in 1..FindN : ~EntryMatches(k - 1))
       => (fx'.bell /\ sel' = sel /\ find_last_iid' = find_last_iid)]_vars

\* C11: a search in regular-expression mode whose pattern does not compile
\* raises nothing, matches nothing, and leaves the selection, the rows with
\* their open states, the last matched identity and the editor cursor as
\* they were.
InvalidPatternAborts ==
    [][(fx'.op = "find" /\ find_vars.rx # 0 /\ ReError(find_vars.pattern))
       => (/\ ~fx'.raised
           /\ ~fx'.matched
           /\ fx'.nav = 0
           /\ UNCHANGED <<rows, kids, sel, find_last_iid>>)]_vars

\* C11 witness: after a match that selected a row and expanded its
\* ancestors, a search for "(" as a regular expression was abandoned
InvalidPatternAbortsWitness ==
    /\ fx.op = "find"
    /\ find_vars.rx # 0
    /\ ReError(find_vars.pattern)
    /\ FindN > 0
    /\ sel # {}
    /\ find_last_iid # None
    /\ \E i \in DOMAIN rows : rows[i].open

\* the records on display, once the buffer has been rendered
DisplayedItems == UpdateItems(ast_parse(buf))

\* what a row is, told from where it sits and what it shows: a call-group
\* header, a call below a header, or the row of a record of some kind
Category(x) ==
    IF rows[x].text = "calls:" THEN "group"
    ELSE IF rows[x].parent # "" /\ rows[rows[x].parent].text = "calls:" THEN "call"
    ELSE IF \E k \in 1..Len(DisplayedItems) : rows[x].text = RowText(DisplayedItems[k])
         THEN LET k == CHOOSE k \in 1..Len(DisplayedItems) :
                          rows[x].text = RowText(DisplayedItems[k])
              IN DisplayedItems[k].kind
    ELSE "other"

\* the category is one of those ticked in the dialog
Included(c) ==
    \/ c = "class" /\ find_vars.in_cls # 0
    \/ c \in {"def", "async def"} /\ find_vars.in_fun # 0
    \/ c = "call" /\ find_vars.in_cal # 0

RECURSIVE PathTo(_)
\* the child positions that lead from the root to row x
PathTo(x) ==
    IF x = "" THEN <<>>
    ELSE LET p == rows[x].parent
         IN Append(PathTo(p), CHOOSE k \in 1..Len(kids[p]) : kids[p][k] = x)

\* row a comes before row b in a depth-first pre-order walk
PreOrderBefore(a, b) ==
    LET pa == PathTo(a)
        pb == PathTo(b)
    IN \E k \in 1..Len(pb) :
          /\ k <= Len(pa) + 1
          /\ \A j \in 1..(k - 1) : pa[j] = pb[j]
          /\ k = Len(pa) + 1 \/ pa[k] < pb[k]

\* C12: whatever is ticked and whatever tree is displayed, a search never
\* selects a call-group header nor a row whose category is not ticked; the
\* index holds rows of ticked categories only, no header, each row once, in
\* depth-first pre-order of the tree.
CategoryFilter ==
    [][(fx'.op = "find" /\ last_src_hash = sha1_hexdigest(buf)) =>
         /\ \A k \in 1..FindN :
               /\ FindIds[k] \in DOMAIN rows
               /\ Category(FindIds[k]) # "group"
               /\ Included(Category(FindIds[k]))
         /\ \A i, j \in 1..FindN : i < j => PreOrderBefore(FindIds[i], FindIds[j])
         /\ fx'.matched =>
               \E x \in DOMAIN rows :
                  /\ sel' = {x}
                  /\ Category(x) # "group"
                  /\ Included(Category(x))]_vars

\* C12 witness: with classes not ticked, a search in a tree that has a
\* call-group header and a class row whose text matches the pattern went
\* past them and selected a call
CategoryFilterWitness ==
    /\ fx.matched
    /\ find_vars.in_cls = 0
    /\ \E x \in DOMAIN rows : Category(x) = "class" /\ Matches(find_vars, rows[x].text)
    /\ \E x \in DOMAIN rows : Category(x) = "group"
    /\ \E x \in sel : Category(x) = "call"

----------------------------------------------------------------------------
(* Claims about _collect_calls and _format_callee *)

RECURSIVE NestQual(_)
\* the qualified name of the function at nesting level j, and its own call
NestQual(j) == IF j = 0 THEN "f0" ELSE NestQual(j - 1) \o ".f" \o Str(j)
NestCall(j) == [label |-> "c" \o Str(j), ln |-> 3 * j + 2]

\* the call map holds a list for qual, and c is on it
OnCallList(qual, c) ==
    qual \in DOMAIN func_calls /\ c \in SeqToSet(func_calls[qual])

\* the call in the body of each nested function is on that function's list
CallOnOwnList ==
    (fx.op = "update" /\ fx.parsed /\ buf \in NestSources)
        => \A j \in 1..NestDepth(buf) : OnCallList(NestQual(j), NestCall(j))

\* the call in the body of a nested function is on no enclosing function's list
CallNotOnEnclosingList ==
    (fx.op = "update" /\ fx.parsed /\ buf \in NestSources)
        => \A i, j \in 0..NestDepth(buf) :
              i < j => ~OnCallList(NestQual(i), NestCall(j))

\* C13 as stated: a call in the body of a function nested inside F, at any
\* depth, is on the nested function's call list and never on F's.
CallScoping == CallOnOwnList /\ CallNotOnEnclosingList

\* the (label, line) pairs of one generated call statement, as the text has them
StmtPairs(d) ==
    CASE d = 0 -> <<[label |-> "g", ln |-> 2]>>
      [] d = 1 -> <<[label |-> "h", ln |-> 2]>>
      [] d = 2 -> <<[label |-> "g", ln |-> 3], [label |-> "h", ln |-> 3]>>
      [] d = 3 -> <<[label |-> "h", ln |-> 3], [label |-> "h", ln |-> 3]>>

RECURSIVE BodyPairsOf(_)
BodyPairsOf(digits) ==
    IF digits = <<>> THEN <<>> ELSE StmtPairs(Head(digits)) \o BodyPairsOf(Tail(digits))

\* every pair in the body of f in the text src, in traversal order
BodyPairs(src) == BodyPairsOf(CallDigits(src - 1000))

\* the first position of pair c in the traversal
FirstPos(pairs, c) == CHOOSE k \in 1..Len(pairs) :
                         pairs[k] = c /\ \A j \in 1..(k - 1) : pairs[j] # c

\* C17: the call list of a function has no two equal (label, line) pairs,
\* holds every pair found in the function's own body, and lists them in the
\* order of their first occurrence in the traversal.
CallListDeDup ==
    (fx.op = "update" /\ fx.parsed /\ buf \in CallSources) =>
        /\ "f" \in DOMAIN func_calls
        /\ LET list == func_calls["f"]
               pairs == BodyPairs(buf)
           IN /\ \A i, j \in 1..Len(list) : list[i] = list[j] => i = j
              /\ SeqToSet(list) = SeqToSet(pairs)
              /\ \A i, j \in 1..Len(list) :
                    i < j => FirstPos(pairs, list[i]) < FirstPos(pairs, list[j])

\* C17 witness: a body in which a pair occurs twice, with another pair in
\* between, was collected into a shorter list
CallListDeDupWitness ==
    /\ fx.op = "update" /\ fx.parsed
    /\ buf \in CallSources
    /\ \E i, j, k \in 1..Len(BodyPairs(buf)) :
          /\ i < j /\ j < k
          /\ BodyPairs(buf)[i] = BodyPairs(buf)[k]
          /\ BodyPairs(buf)[j] # BodyPairs(buf)[i]
    /\ Len(func_calls["f"]) < Len(BodyPairs(buf))
    /\ Len(func_calls["f"]) >= 2

\* C18: after an update on text that does not parse the tree is one leaf
\* row, with no child and no calls group, whatever the tree and the call
\* map were before; a search against that tree matches nothing, leaves the
\* selection and the last matched identity alone and moves no cursor.
ParseErrorDisplay ==
    [][/\ (fx'.op = "update" /\ fx'.parsed /\ ~ast_parse(buf').ok)
             => /\ Len(kids'[""]) = 1
                /\ DOMAIN rows' = {kids'[""][1]}
                /\ kids'[kids'[""][1]] = <<>>
                /\ rows'[kids'[""][1]].text # "calls:"
       /\ (fx'.op = "find" /\ ~ast_parse(buf).ok /\ last_src_hash = sha1_hexdigest(buf))
             => /\ ~fx'.matched
                /\ fx'.nav = 0
                /\ ~fx'.raised
                /\ UNCHANGED <<rows, kids, sel, find_last_iid>>]_vars

\* C18 witness: a tree with a calls group was replaced by the error row,
\* the user selected that row, and a search for "(", which occurs in the
\* row's text, left everything as it was
ParseErrorDisplayWitness ==
    /\ fx.op = "find"
    /\ ~fx.matched
    /\ ErrorRowOnly
    /\ func_calls # NoCalls
    /\ find_vars.pattern = "("
    /\ sel = {"Parse error (invalid syntax)"}
    /\ Contains(rows["Parse error (invalid syntax)"].text, "(")

\* the character of s at position k, or "" outside s
At(s, k) == IF k >= 1 /\ k <= Len(s) THEN CharAt(s, k) ELSE ""

\* p occurs in s as a word: with no word character right before or after it
OccursAsWord(p, s) ==
    \E i \in 1..(Len(s) - Len(p) + 1) :
        /\ SubSeq(s, i, i + Len(p) - 1) = p
        /\ ~IsWordChar(At(s, i - 1))
        /\ ~IsWordChar(At(s, i + Len(p)))

\* the pattern typed and a row's text, as compared under the Ignore case box
Folded(s) == IF find_vars.ic # 0 THEN Lower(s) ELSE s

\* C19: with Whole word ticked, a pattern that begins and ends with a word
\* character matches a label only where it stands as a word; "run" never
\* selects the rows of runner, whose only occurrence of run is inside
\* runner, and selects the row of run when that row is in the index.
WholeWordMatching ==
    [][(/\ fx'.op = "find"
        /\ find_vars.whole # 0
        /\ IsWordChar(At(find_vars.pattern, 1))
        /\ IsWordChar(At(find_vars.pattern, Len(find_vars.pattern))))
       => /\ fx'.matched =>
                \E x \in DOMAIN rows :
                    /\ sel' = {x}
                    /\ OccursAsWord(Folded(find_vars.pattern), Folded(rows[x].text))
          /\ (find_vars.pattern = "run" /\ "run" \in SeqToSet(FindIds))
                => (fx'.matched /\ sel' = {"run"})
          /\ find_vars.pattern = "run"
                => (sel' = sel \/ sel' \cap {"runner", "run::call::0:2"} = {})]_vars

\* C19 witness: searching "run" as a whole word went past the row of runner
\* and selected the row of run, whose call leaf shows runner as well
WholeWordMatchingWitness ==
    /\ fx.matched
    /\ find_vars.whole # 0
    /\ find_vars.pattern = "run"
    /\ sel = {"run"}
    /\ "runner" \in DOMAIN rows
    /\ Contains(rows["runner"].text, "run")
    /\ Contains(rows["run::call::0:2"].text, "run")

RECURSIVE Dotted(_)
\* the attribute names of a generated callee of the given depth: ".b.c"
Dotted(depth) == IF depth = 0 THEN "" ELSE Dotted(depth - 1) \o "." \o AttrName(depth)

\* the label collected for the call statement of the generated text
CalleeLabel == func_calls["f"][1].label

\* the label of a callee that is neither a name nor an attribute access
Placeholder == format_callee(Subscript(Name("t", 2), 2))

\* a generated callee has been collected
CalleeCollected ==
    /\ fx.op = "update" /\ fx.parsed
    /\ buf \in CalleeSources

\* C20 as stated: an identifier is rendered as itself, a chain that starts
\* at an identifier as the dotted names left to right, and every other form,
\* an attribute access on something that is not an identifier included, as
\* one fixed placeholder.
CalleeLabelFixedPlaceholder ==
    CalleeCollected =>
        IF CalleeRoot(buf) = 0 THEN CalleeLabel = "a" \o Dotted(CalleeDepth(buf))
        ELSE CalleeLabel = Placeholder

\* C20 amended: an identifier is rendered as itself and a chain that starts
\* at an identifier as the dotted names left to right; an attribute chain
\* that starts at anything else is rendered as "<expr>" followed by its
\* dotted attribute names; every other form is rendered as "<call>".
CalleeLabelRendering ==
    CalleeCollected =>
        IF CalleeRoot(buf) = 0 THEN CalleeLabel = "a" \o Dotted(CalleeDepth(buf))
        ELSE IF CalleeDepth(buf) = 0 THEN CalleeLabel = "<call>"
        ELSE CalleeLabel = "<expr>" \o Dotted(CalleeDepth(buf))

\* C20 witness: the callee t[0].b.c was collected as "<expr>.b.c"
CalleeLabelRenderingWitness ==
    /\ CalleeCollected
    /\ CalleeRoot(buf) = 1
    /\ CalleeDepth(buf) = 2
    /\ CalleeLabel = "<expr>.b.c"
    /\ CalleeLabel # Placeholder

----------------------------------------------------------------------------
(* Claims about the window and the timer *)

\* C14: in every state reached through show, hide, toggle, refresh and timer
\* events at most one timer callback is pending, and none while the window
\* is hidden or not built; every way of hiding cancels the pending callback,
\* so _update runs only with the window shown.
TimerLifecycle ==
    [][/\ Cardinality(timers') <= 1
       /\ win' # "shown" => timers' = {}
       /\ fx'.op \in {"toggle", "close"} /\ win' = "hidden"
             => (timers' = {} /\ after_id' = None)
       /\ fx'.op \in {"update", "periodic"} => win' = "shown"]_vars

\* C14 witness: the window was hidden by Close, no callback is pending, and
\* the buffer has been edited since the last update
TimerLifecycleWitness ==
    /\ win = "hidden"
    /\ timers = {}
    /\ after_id = None
    /\ fx.op = "close"
    /\ last_src_hash # None
    /\ last_src_hash # sha1_hexdigest(buf)

\* what a fresh Treeview shows for text src
Rendering(src) ==
    update([rows |-> EmptyRows, kids |-> RootOnly, serial |-> 0], {}, None, NoCalls, src).t

\* the displayed tree has the rows of Rendering(src): the same identities,
\* parents, texts, line values and order
Rendered(src) ==
    /\ kids = Rendering(src).kids
    /\ DOMAIN rows = DOMAIN Rendering(src).rows
    /\ \A i \in DOMAIN rows :
          /\ rows[i].parent = Rendering(src).rows[i].parent
          /\ rows[i].text = Rendering(src).rows[i].text
          /\ rows[i].values = Rendering(src).rows[i].values

----------------------------------------------------------------------------
(* Claims about the order of rows *)

\* the rows below parent p that stand for a class or function record
RecordRows(p) == SelectSeq(kids[p], LAMBDA x : rows[x].text # "calls:")

\* the line a row stands for
LineOf(x) == ParseInt(rows[x].values[1])

\* C16: after every rebuild, below every parent (the root included) the
\* class and function rows stand in ascending line order, in whatever order
\* the records were passed to _set_tree_items.
ChildOrder ==
    fx.rebuilt =>
        \A p \in DOMAIN kids :
            \A i, j \in 1..Len(RecordRows(p)) :
                i < j => LineOf(RecordRows(p)[i]) <= LineOf(RecordRows(p)[j])

\* C16 witness: records passed out of line order were rebuilt into a tree
\* with two rows at the root and two below a class
ChildOrderWitness ==
    /\ fx.op = "set_tree_items"
    /\ fx.shuffled
    /\ Len(RecordRows("")) = 2
    /\ \E p \in DOMAIN rows : Len(RecordRows(p)) = 2

----------------------------------------------------------------------------
(* Claims about the extraction records and the rows that show them *)

\* the positions of the records with qualified name qual
RecordsOf(items, qual) == {k \in 1..Len(items) : items[k].qual = qual}

\* C21 as stated: every definition of a text that parses, at any depth and in
\* any block of a compound statement (the else branch of an if included),
\* yields exactly one record, whose parent is the nearest enclosing
\* definition, and the record of a parent precedes those of its children.
ExtractionComplete ==
    (fx.op = "update" /\ fx.parsed /\ buf \in NestSources) =>
        \A j \in 0..NestDepth(buf) :
            /\ Cardinality(RecordsOf(Items(buf), NestQual(j))) = 1
            /\ \A k \in RecordsOf(Items(buf), NestQual(j)) :
                  /\ Items(buf)[k].parent = (IF j = 0 THEN None ELSE NestQual(j - 1))
                  /\ j > 0 => \E p \in RecordsOf(Items(buf), NestQual(j - 1)) : p < k

\* a row that shows a function record, told from its text
IsFunctionRow(x) ==
    \/ Contains(rows[x].text, "  " \o EmDash \o "  def  (L")
    \/ Contains(rows[x].text, "  " \o EmDash \o "  async def  (L")

\* the name a record row shows: its text up to the first blank
ShownName(x) == SubSeq(rows[x].text, 1, FirstIndex(rows[x].text, " ") - 1)

RECURSIVE RowQual(_)
\* the qualified name of the definition a record row shows: the names shown
\* from the top-level row down to it, joined by dots
RowQual(x) ==
    IF rows[x].parent = "" THEN ShownName(x)
    ELSE RowQual(rows[x].parent) \o "." \o ShownName(x)

\* the call list of the row's qualified name
CallListOf(x) ==
    IF RowQual(x) \in DOMAIN func_calls THEN func_calls[RowQual(x)] ELSE <<>>

\* the calls groups among the children of x
Groups(x) == SelectSeq(kids[x], LAMBDA c : rows[c].text = "calls:")

\* the rows that are neither a calls group nor a call leaf
IsRecordRow(x) ==
    /\ rows[x].text # "calls:"
    /\ rows[x].parent = "" \/ rows[rows[x].parent].text # "calls:"

\* C22 as stated: in every displayed tree a function row has exactly one
\* calls group, with identity qual::calls and placed last among its
\* children, iff its call list is not empty; the group holds one leaf per
\* entry of the list, in list order, with identity qual::call::index:line;
\* a row that is not a function row has no calls group.
CallsGroupStructure ==
    \A x \in DOMAIN rows :
        IsRecordRow(x) =>
            IF IsFunctionRow(x) /\ CallListOf(x) # <<>>
            THEN LET q == RowQual(x)
                     calls == CallListOf(x)
                 IN /\ Groups(x) = <<q \o "::calls">>
                    /\ kids[x][Len(kids[x])] = q \o "::calls"
                    /\ kids[q \o "::calls"] =
                          [k \in 1..Len(calls) |->
                              q \o "::call::" \o Str(k - 1) \o ":" \o Str(calls[k].ln)]
                    /\ \A k \in 1..Len(calls) :
                          rows[kids[q \o "::calls"][k]].text = CallText(calls[k])
            ELSE Groups(x) = <<>>

RECURSIVE Shape(_, _)
\* what a tree shows below parent, whatever the identities of its rows: the
\* text and line value of each row, in order, with what it shows below it
Shape(t, parent) ==
    [k \in 1..Len(t.kids[parent]) |->
        [text |-> t.rows[t.kids[parent][k]].text,
         values |-> t.rows[t.kids[parent][k]].values,
         below |-> Shape(t, t.kids[parent][k])]]

\* C23 as stated: whenever a tree exists and the stored fingerprint is the
\* hash of the buffer text, the tree shows the rendering of that text (its
\* symbol rows, or the single parse-error row), also after the window was
\* destroyed and made again.
TreeMatchesFingerprint ==
    (win # "none" /\ last_src_hash = sha1_hexdigest(buf))
        => Shape(Tree, "") = Shape(Rendering(buf), "")

\* the rows that show record r: its name, kind and line under its qualified name
RowsOf(r) ==
    {x \in DOMAIN rows : IsRecordRow(x) /\ rows[x].text = RowText(r) /\ RowQual(x) = r.qual}

\* the records of the text whose qualified name is the parent of record r
ParentRecords(r) ==
    {k \in 1..Len(Items(buf)) : Items(buf)[k].qual = r.parent}

\* C24 as stated: after a successful update that was not skipped, every
\* record is shown by exactly one row and every class or function row shows
\* a record, so that there are as many such rows as records; the row of a
\* record stands at top level when the record has no parent and else under a
\* row of its parent record - also when definitions share a qualified name.
RowRecordCorrespondence ==
    (fx.op = "update" /\ fx.rebuilt /\ ast_parse(buf).ok) =>
        /\ \A k \in 1..Len(Items(buf)) :
              /\ Cardinality(RowsOf(Items(buf)[k])) = 1
              /\ \A x \in RowsOf(Items(buf)[k]) :
                    IF Items(buf)[k].parent = None THEN rows[x].parent = ""
                    ELSE \E p \in ParentRecords(Items(buf)[k]) :
                            rows[x].parent \in RowsOf(Items(buf)[p])
        /\ Cardinality({x \in DOMAIN rows : IsRecordRow(x)}) = Len(Items(buf))

RECURSIVE FunctionDefs(_, _)
\* the function definitions of a text, each with its qualified name, its
\* line and the calls of its own body
FunctionDefs(body, parent_qual) ==
    IF body = <<>> THEN <<>>
    ELSE LET n == Head(body)
             qual == QualOf(parent_qual, n.name)
             here == IF n.type \in {"FunctionDef", "AsyncFunctionDef"}
                     THEN <<[qual |-> qual, lineno |-> n.lineno,
                             calls |-> collect_calls(n)]>>
                     ELSE <<>>
             inner == IF n.type \in {"ClassDef", "FunctionDef", "AsyncFunctionDef"}
                      THEN FunctionDefs(n.body, qual)
                      ELSE FunctionDefs(n.body, parent_qual)
         IN here \o inner \o FunctionDefs(Tail(body), parent_qual)

\* the texts of the call leaves displayed under row x, in order
LeavesUnder(x) ==
    LET leaves(g) == [k \in 1..Len(kids[g]) |-> rows[kids[g][k]].text]
    IN IF Groups(x) = <<>> THEN <<>> ELSE leaves(Groups(x)[1])

\* C25 as stated: after a successful update the call leaves under a function
\* row are exactly the call sites of the body of the definition the row
\* shows (the one of that qualified name at that line), also when another
\* definition has the same qualified name.
OwnCallList ==
    (fx.op = "update" /\ fx.rebuilt /\ ast_parse(buf).ok) =>
        \A x \in DOMAIN rows :
            (IsRecordRow(x) /\ IsFunctionRow(x)) =>
                \A k \in 1..Len(FunctionDefs(ast_parse(buf).body, None)) :
                    LET d == FunctionDefs(ast_parse(buf).body, None)[k]
                    IN (d.qual = RowQual(x) /\ d.lineno = LineOf(x)) =>
                          LeavesUnder(x) = [j \in 1..Len(d.calls) |-> CallText(d.calls[j])]

----------------------------------------------------------------------------
(* Claims about what a rebuild carries over *)

====
